---- MODULE Spec2Model ----
(***************************************************************************)
(* Isothermal Flux Framework (my-weather-app2): the thermodynamic helpers  *)
(* of src/utils/thermo.ts, the App state of src/App.tsx and the drag       *)
(* protocol of src/components/IsenthalpicDiagram.tsx.                      *)
(*                                                                         *)
(* Numbers.  The program computes in IEEE-754 doubles.  The model computes *)
(* in decimal fixed point: the integer n stands for the number n / SCALE,  *)
(* every operation rounds its exact result to the nearest multiple of      *)
(* 1 / SCALE, and the three special doubles the code can produce are kept  *)
(* as values of their own: PInf (+Infinity), NInf (-Infinity) and NaN.     *)
(* A finite result whose magnitude exceeds MaxFin / SCALE becomes an       *)
(* infinity, as a double beyond 1.8e308 does.  The input sets below use    *)
(* only temperatures where the model and the doubles agree up to rounding: *)
(* the UI domain, and temperatures so close to the pole T = -237.3 of the  *)
(* Tetens exponent that Math.exp really returns Infinity or 0.             *)
(***************************************************************************)
EXTENDS Integers, Sequences, FiniteSets, TLC

SCALE == 10000
MaxFin == SCALE * SCALE
PInf == MaxFin + 1
NInf == -PInf
NaN == MaxFin + 2

Abs(n) == IF n < 0 THEN -n ELSE n
Sign(n) == IF n < 0 THEN -1 ELSE 1

IsNaN(a) == a = NaN
IsInf(a) == a = PInf \/ a = NInf
IsFinite(a) == ~IsNaN(a) /\ ~IsInf(a)

\* Rounds an exact magnitude back into the representable range.
Saturate(n) == IF n > MaxFin THEN PInf ELSE IF n < -MaxFin THEN NInf ELSE n

\* The number with integer part i and four decimals f: Num(0, 660) is 0.066.
Num(i, f) == i * SCALE + f

\* a + b
FAdd(a, b) ==
  IF IsNaN(a) \/ IsNaN(b) THEN NaN
  ELSE IF IsInf(a) THEN (IF IsInf(b) /\ a # b THEN NaN ELSE a)
  ELSE IF IsInf(b) THEN b
  ELSE Saturate(a + b)

\* -a
FNeg(a) == IF IsNaN(a) THEN NaN ELSE -a

\* a - b
FSub(a, b) == FAdd(a, FNeg(b))

\* |a| * |b| / SCALE for finite a and b, rounded to nearest, computed in
\* halves so that no intermediate product leaves the integer range.
MulMag(x, y) ==
  LET xh == x \div SCALE  xl == x % SCALE
      yh == y \div SCALE  yl == y % SCALE
  IN IF xh * yh > SCALE THEN PInf
     ELSE Saturate(xh * yh * SCALE + xh * yl + xl * yh
                   + (xl * yl + SCALE \div 2) \div SCALE)

\* The magnitude m with the sign of a product or quotient of a and b.
Signed(m, a, b) == IF Sign(a) = Sign(b) \/ m = 0 THEN m ELSE -m

\* a * b
FMul(a, b) ==
  IF IsNaN(a) \/ IsNaN(b) THEN NaN
  ELSE IF IsInf(a) \/ IsInf(b)
       THEN (IF a = 0 \/ b = 0 THEN NaN
             ELSE IF Sign(a) = Sign(b) THEN PInf ELSE NInf)
  ELSE Signed(MulMag(Abs(a), Abs(b)), a, b)

\* The decimals of r / y after the point for 0 <= r < y, the next one worth
\* unit / SCALE.  The last step rounds to nearest.
RECURSIVE FracDigits(_, _, _)
FracDigits(r, y, unit) ==
  IF unit = 0 THEN (IF 2 * r >= y THEN 1 ELSE 0)
  ELSE LET d == (r * 10) \div y
           rest == (r * 10) % y
       IN d * unit + FracDigits(rest, y, unit \div 10)

\* |a| / |b| for finite a and b # 0, by long division.
DivMag(x, y) ==
  IF x \div y > SCALE THEN PInf
  ELSE Saturate((x \div y) * SCALE + FracDigits(x % y, y, SCALE \div 10))

\* a / b.  A zero divisor is the double +0 (the only zero the code divides
\* by is 237.3 + T at T = -237.3, which is +0).
FDiv(a, b) ==
  IF IsNaN(a) \/ IsNaN(b) THEN NaN
  ELSE IF IsInf(a) THEN (IF IsInf(b) THEN NaN
                         ELSE IF Sign(a) = Sign(b) THEN PInf ELSE NInf)
  ELSE IF IsInf(b) THEN 0
  ELSE IF b = 0 THEN (IF a = 0 THEN NaN ELSE IF a > 0 THEN PInf ELSE NInf)
  ELSE Signed(DivMag(Abs(a), Abs(b)), a, b)

\* The comparisons of doubles: every comparison with NaN is false.
FLe(a, b) == ~IsNaN(a) /\ ~IsNaN(b) /\ a <= b
FLt(a, b) == ~IsNaN(a) /\ ~IsNaN(b) /\ a < b
FGt(a, b) == FLt(b, a)
FGe(a, b) == FLe(b, a)
\* a === b
FEq(a, b) == ~IsNaN(a) /\ ~IsNaN(b) /\ a = b

\* Math.max and Math.min: NaN if either argument is NaN.
FMax(a, b) == IF IsNaN(a) \/ IsNaN(b) THEN NaN ELSE IF a >= b THEN a ELSE b
FMin(a, b) == IF IsNaN(a) \/ IsNaN(b) THEN NaN ELSE IF a <= b THEN a ELSE b

\* The largest |x| whose exponential the model represents: e^9 < MaxFin / SCALE.
ExpRange == Num(9, 0)

\* 1 + y + y^2/2! + ... for 0 <= y <= ExpRange: term is y^(n-1)/(n-1)!.
RECURSIVE ExpSeries(_, _, _)
ExpSeries(term, y, n) ==
  IF term = 0 THEN 0
  ELSE term + ExpSeries((2 * MulMag(term, y) + n) \div (2 * n), y, n + 1)

\* Math.exp(x).  Beyond the represented range the result saturates to
\* Infinity or 0, as Math.exp does beyond 709.78 and -745.13.
Exp(x) ==
  IF IsNaN(x) THEN NaN
  ELSE IF x > ExpRange THEN PInf
  ELSE IF x < -ExpRange THEN 0
  ELSE IF x >= 0 THEN ExpSeries(SCALE, x, 1)
  ELSE DivMag(SCALE, ExpSeries(SCALE, -x, 1))

(***************************************************************************)
(* src/components/IsenthalpicDiagram.tsx: geometry of the plot             *)
(***************************************************************************)

width == 600
height == 400
paddingTop == 20
paddingRight == 30
paddingBottom == 50
paddingLeft == 60
minT == 0
maxT == 40
minE == 0
maxE == 8

\* invertX(x): the temperature under the SVG abscissa x, clamped to the domain.
invertX(x) ==
  LET plotWidth == Num(width - paddingLeft - paddingRight, 0)
      t == FAdd(Num(minT, 0),
                FMul(FDiv(FSub(x, Num(paddingLeft, 0)), plotWidth),
                     Num(maxT - minT, 0)))
  IN FMax(Num(minT, 0), FMin(Num(maxT, 0), t))

\* invertY(y): the vapor pressure under the SVG ordinate y, clamped.
invertY(y) ==
  LET plotHeight == Num(height - paddingTop - paddingBottom, 0)
      e == FAdd(Num(minE, 0),
                FMul(FDiv(FSub(Num(height - paddingBottom, 0), y), plotHeight),
                     Num(maxE - minE, 0)))
  IN FMax(Num(minE, 0), FMin(Num(maxE, 0), e))

(***************************************************************************)
(* Inputs.  The sliders, the calculator fields and the pointer range over  *)
(* samples of what the browser can deliver.                                *)
(***************************************************************************)

\* Number of steps the temperature sliders are sampled at.
TempSteps == 4
\* Number of steps the humidity slider is sampled at.
RHSteps == 2
\* Number of steps the energy slider is sampled at.
QnSteps == 2

\* k-th of n equal steps from lo to hi (whole numbers).
Sample(lo, hi, k, n) ==
  FAdd(Num(lo, 0), FDiv(FMul(Num(k, 0), Num(hi - lo, 0)), Num(n, 0)))

\* <input type="range" min="0" max="40">
RangeTemps == {Sample(0, 40, k, TempSteps) : k \in 0..TempSteps}
\* <input type="range" min="10" max="100">
RangeRH == {Sample(10, 100, k, RHSteps) : k \in 0..RHSteps}
\* <input type="range" min="0" max="800">
RangeQn == {Sample(0, 800, k, QnSteps) : k \in 0..QnSteps}

\* Temperatures at and next to the pole of 17.27 T / (237.3 + T): below it
\* Math.exp overflows to Infinity, at and above it it underflows to 0.
PoleTemps == {-Num(238, 0), -Num(237, 4000), -Num(237, 3000), -Num(237, 2000)}

\* <input type="number">: any number can be typed.
TypedTemps == {-Num(238, 0)}
TypedRH == {Num(150, 0)}
TypedQn == {-Num(50, 0)}

\* Pointer offsets from the SVG's corner, in CSS pixels, and the rendered
\* sizes of the SVG (getBoundingClientRect), which keep the view box's ratio.
Full == <<600, 400>>
Half == <<300, 200>>
Pointers ==
  { <<-10, 420, Full>>,   \* left of and below the plot
    <<315, 185, Full>>,   \* 20 degrees, 4 kPa: above the saturation curve
    <<315, 300, Full>>,   \* 20 degrees, 1.21 kPa: below it
    <<350, 5, Half>>,     \* right of and above the plot
    <<60, 150, Half>>,    \* 4.71 degrees, 1.21 kPa: above the curve
    <<285, 100, Half>> }  \* 40 degrees, 3.64 kPa: below the curve

\* The temperatures the pointer can produce.
PointerTemps ==
  {invertX(FMul(Num(p[1], 0), FDiv(Num(width, 0), Num(p[3][1], 0)))) :
     p \in Pointers}

\* Initial state of App: useState(25), useState(20), useState(60), useState(300)
InitTa == Num(25, 0)
InitTs == Num(20, 0)
InitRH == Num(60, 0)
InitQn == Num(300, 0)

\* Temperatures calculateLEI is called with directly.
FnLEITemps == {Num(0, 0), Num(10, 0), Num(20, 0)}

\* Every temperature the inputs can produce.
KnownTemps ==
  RangeTemps \cup TypedTemps \cup PoleTemps \cup PointerTemps
    \cup FnLEITemps \cup {InitTa, InitTs}

(***************************************************************************)
(* src/utils/thermo.ts                                                     *)
(***************************************************************************)

\* Psychrometric constant, 0.066 kPa per degree.
GAMMA == 660

\* The formula with the sign of its exponent lost.
Tetens_NegatedExponent(T) ==
  FMul(Num(0, 6108),
       Exp(FNeg(FDiv(FMul(Num(17, 2700), T), FAdd(Num(237, 3000), T)))))

\* e*(T) = 0.6108 * exp(17.27 * T / (237.3 + T))
Tetens(T) ==
  FMul(Num(0, 6108), Exp(FDiv(FMul(Num(17, 2700), T), FAdd(Num(237, 3000), T))))

\* The formula's values at the temperatures the inputs can produce, so that
\* TLC evaluates each exponential once.
SatTable == [T \in KnownTemps |-> Tetens(T)]

\* calculateSatVaporPressure(T), for T among the temperatures of the inputs.
calculateSatVaporPressure(T) == SatTable[T]

\* calculateIsothermalVaporPressure without the cap of the saturated regime.
calculateIsothermalVaporPressure_Uncapped(Ts_, Ta_) ==
  LET es_star == calculateSatVaporPressure(Ts_)
      projected_e == FSub(es_star, FMul(GAMMA, FSub(Ta_, Ts_)))
  IN IF FLe(Ts_, Ta_)
     THEN [eI |-> projected_e, regime |-> "limited"]
     ELSE [eI |-> projected_e, regime |-> "saturated"]

\* calculateIsothermalVaporPressure branching on Ts < Ta.
calculateIsothermalVaporPressure_Strict(Ts_, Ta_) ==
  LET es_star == calculateSatVaporPressure(Ts_)
      ea_star == calculateSatVaporPressure(Ta_)
      projected_e == FSub(es_star, FMul(GAMMA, FSub(Ta_, Ts_)))
  IN IF FLt(Ts_, Ta_)
     THEN [eI |-> projected_e, regime |-> "limited"]
     ELSE [eI |-> ea_star, regime |-> "saturated"]

\* calculateIsothermalVaporPressure(Ts, Ta): the projection of the surface
\* state along its isenthalp to Ta, or e*(Ta) in the saturated regime.
calculateIsothermalVaporPressure(Ts_, Ta_) ==
  LET es_star == calculateSatVaporPressure(Ts_)
      ea_star == calculateSatVaporPressure(Ta_)
      projected_e == FSub(es_star, FMul(GAMMA, FSub(Ta_, Ts_)))
  IN IF FLe(Ts_, Ta_)
     THEN [eI |-> projected_e, regime |-> "limited"]
     ELSE [eI |-> ea_star, regime |-> "saturated"]

\* calculateLEI returning Qn in both regimes.
calculateLEI_AlwaysQn(Qn_, eI_, ea_, es_star_, Ts_, Ta_) ==
  LET denominator == FSub(FSub(es_star_, ea_), FMul(GAMMA, FSub(Ta_, Ts_)))
  IN IF FEq(denominator, 0) THEN 0 ELSE Qn_

\* calculateLEI without its guard against a zero denominator.
calculateLEI_Unguarded(Qn_, eI_, ea_, es_star_, Ts_, Ta_) ==
  LET denominator == FSub(FSub(es_star_, ea_), FMul(GAMMA, FSub(Ta_, Ts_)))
  IN IF FLe(Ts_, Ta_) THEN Qn_
     ELSE LET ea_star == calculateSatVaporPressure(Ta_)
          IN FMul(Qn_, FDiv(FSub(ea_star, ea_), denominator))

\* calculateLEI(Qn, eI, ea, es_star, Ts, Ta), Equation (9).  eI is not read.
calculateLEI(Qn_, eI_, ea_, es_star_, Ts_, Ta_) ==
  LET denominator == FSub(FSub(es_star_, ea_), FMul(GAMMA, FSub(Ta_, Ts_)))
  IN IF FEq(denominator, 0) THEN 0
     ELSE IF FLe(Ts_, Ta_) THEN Qn_
     ELSE LET ea_star == calculateSatVaporPressure(Ta_)
          IN FMul(Qn_, FDiv(FSub(ea_star, ea_), denominator))

(***************************************************************************)
(* State                                                                   *)
(***************************************************************************)

VARIABLES
  activeTab,  \* App: 'theory' | 'model' | 'calculator'
  Ta,         \* App: air temperature
  Ts,         \* App: surface temperature
  RH,         \* App: relative humidity, percent
  Qn,         \* App: available energy
  dragging,   \* IsenthalpicDiagram: "surface" | "air" | "null"
  view,       \* what the last render of App and of the diagram shows
  event,      \* the last UI event and the callback it invoked
  call,       \* a direct call of a thermo function: arguments and result
  prev,       \* the call of calculateSatVaporPressure before it, if any
  curve       \* IsenthalpicDiagram: the useMemo of saturationCurvePath

appState == <<Ta, Ts, RH, Qn>>
uiVars == <<activeTab, Ta, Ts, RH, Qn, dragging, view, event, curve>>
fnVars == <<call, prev>>
vars == <<activeTab, Ta, Ts, RH, Qn, dragging, view, event, call, prev, curve>>

(***************************************************************************)
(* Rendering: src/App.tsx 16-20 and 170, IsenthalpicDiagram.tsx 57-61      *)
(***************************************************************************)

\* What App shows, given ea, es_star and the result of
\* calculateIsothermalVaporPressure: LE_I, and the gradient eI - ea.
Derived(ea, es_star, iso, Ta_, Ts_, Qn_) ==
  [ea |-> ea, es_star |-> es_star, eI |-> iso.eI, regime |-> iso.regime,
   LE_I |-> calculateLEI(Qn_, iso.eI, ea, es_star, Ts_, Ta_),
   G_I |-> FSub(iso.eI, ea)]

\* The derived values of App's render.
RenderApp(Ta_, Ts_, RH_, Qn_) ==
  Derived(FDiv(FMul(calculateSatVaporPressure(Ta_), RH_), Num(100, 0)),
          calculateSatVaporPressure(Ts_),
          calculateIsothermalVaporPressure(Ts_, Ta_), Ta_, Ts_, Qn_)

\* The diagram's render from its props; it is mounted on the model tab only.
RenderDiagram(mounted, Ts_, Ta_, ea_) ==
  IF mounted
  THEN [mounted |-> TRUE, Ts |-> Ts_, Ta |-> Ta_, ea |-> ea_,
        es_star |-> calculateSatVaporPressure(Ts_),
        ea_star |-> calculateSatVaporPressure(Ta_)]
         @@ calculateIsothermalVaporPressure(Ts_, Ta_)
  ELSE [mounted |-> FALSE, Ts |-> 0, Ta |-> 0, ea |-> 0, es_star |-> 0,
        ea_star |-> 0, eI |-> 0, regime |-> "none"]

\* App's view and, from the props App passes it, the diagram's.
WithDiagram(tab, app, Ta_, Ts_) ==
  [app |-> app, diagram |-> RenderDiagram(tab = "model", Ts_, Ta_, app.ea)]

\* One render pass of App with the given state.
Render(tab, Ta_, Ts_, RH_, Qn_) ==
  WithDiagram(tab, RenderApp(Ta_, Ts_, RH_, Qn_), Ta_, Ts_)

NoCallback == [cb |-> "none", a |-> 0, b |-> 0]
Event(type, cb) == [type |-> type, cb |-> cb.cb, a |-> cb.a, b |-> cb.b]
NoCall == [fn |-> "none", args |-> <<>>, done |-> FALSE, ret |-> 0, regime |-> "none"]
Pending(fn, args) == [fn |-> fn, args |-> args, done |-> FALSE, ret |-> 0, regime |-> "none"]
\* The memo of saturationCurvePath when its computation is not followed.
NoCurve == [pc |-> "untracked", t |-> 0, d |-> <<>>, runs |-> 0, mounts |-> 0]

Init ==
  /\ activeTab = "model"
  /\ Ta = InitTa
  /\ Ts = InitTs
  /\ RH = InitRH
  /\ Qn = InitQn
  /\ dragging = "null"
  /\ view = Render("model", InitTa, InitTs, InitRH, InitQn)
  /\ event = Event("init", NoCallback)
  /\ call = NoCall
  /\ prev = NoCall
  /\ curve = NoCurve

(***************************************************************************)
(* src/App.tsx: tabs, sliders, calculator fields, drag callbacks           *)
(***************************************************************************)

\* A state change of App whose render keeps the values derived from the
\* previous surface temperature.
Commit_StaleSurface(tab, Ta_, Ts_, RH_, Qn_) ==
  /\ activeTab' = tab
  /\ Ta' = Ta_
  /\ Ts' = Ts_
  /\ RH' = RH_
  /\ Qn' = Qn_
  /\ view' = Render(tab, Ta_, Ts, RH_, Qn_)

\* A state change of App followed by its re-render.
Commit(tab, Ta_, Ts_, RH_, Qn_) ==
  /\ activeTab' = tab
  /\ Ta' = Ta_
  /\ Ts' = Ts_
  /\ RH' = RH_
  /\ Qn' = Qn_
  /\ view' = Render(tab, Ta_, Ts_, RH_, Qn_)

\* onClick={() => setActiveTab(t)}; leaving the model tab unmounts the
\* diagram and with it its dragging state.
SetActiveTab(t) ==
  /\ Commit(t, Ta, Ts, RH, Qn)
  /\ dragging' = IF t = "model" THEN dragging ELSE "null"
  /\ event' = Event("setActiveTab", NoCallback)
  /\ UNCHANGED <<call, prev, curve>>

\* The four range inputs of the model tab.
SliderTa(v) ==
  /\ activeTab = "model"
  /\ Commit(activeTab, v, Ts, RH, Qn)
  /\ event' = Event("input", NoCallback)
  /\ UNCHANGED <<dragging, call, prev, curve>>

SliderTs(v) ==
  /\ activeTab = "model"
  /\ Commit(activeTab, Ta, v, RH, Qn)
  /\ event' = Event("input", NoCallback)
  /\ UNCHANGED <<dragging, call, prev, curve>>

SliderRH(v) ==
  /\ activeTab = "model"
  /\ Commit(activeTab, Ta, Ts, v, Qn)
  /\ event' = Event("input", NoCallback)
  /\ UNCHANGED <<dragging, call, prev, curve>>

SliderQn(v) ==
  /\ activeTab = "model"
  /\ Commit(activeTab, Ta, Ts, RH, v)
  /\ event' = Event("input", NoCallback)
  /\ UNCHANGED <<dragging, call, prev, curve>>

\* The four number inputs of the calculator tab.
CalcQn(v) ==
  /\ activeTab = "calculator"
  /\ Commit(activeTab, Ta, Ts, RH, v)
  /\ event' = Event("input", NoCallback)
  /\ UNCHANGED <<dragging, call, prev, curve>>

CalcTa(v) ==
  /\ activeTab = "calculator"
  /\ Commit(activeTab, v, Ts, RH, Qn)
  /\ event' = Event("input", NoCallback)
  /\ UNCHANGED <<dragging, call, prev, curve>>

CalcTs(v) ==
  /\ activeTab = "calculator"
  /\ Commit(activeTab, Ta, v, RH, Qn)
  /\ event' = Event("input", NoCallback)
  /\ UNCHANGED <<dragging, call, prev, curve>>

CalcRH(v) ==
  /\ activeTab = "calculator"
  /\ Commit(activeTab, Ta, Ts, v, Qn)
  /\ event' = Event("input", NoCallback)
  /\ UNCHANGED <<dragging, call, prev, curve>>

\* handleSurfaceChange(newTs): the App state after it.
handleSurfaceChange(newTs) == [Ta |-> Ta, Ts |-> newTs, RH |-> RH, Qn |-> Qn]

\* if (newRH > 100) newRH = 100
CapAt100(newRH) == IF FGt(newRH, Num(100, 0)) THEN Num(100, 0) ELSE newRH
\* if (newRH < 0) newRH = 0
FloorAt0(newRH) == IF FLt(newRH, 0) THEN 0 ELSE newRH

\* handleAirChange without the clamp of the new humidity.
handleAirChange_Unclamped(newTa, newEa) ==
  [Ta |-> newTa, Ts |-> Ts, Qn |-> Qn,
   RH |-> FMul(FDiv(newEa, calculateSatVaporPressure(newTa)), Num(100, 0))]

\* handleAirChange storing the ratio newEa / newEs instead of the percentage.
handleAirChange_Fraction(newTa, newEa) ==
  [Ta |-> newTa, Ts |-> Ts, Qn |-> Qn,
   RH |-> FloorAt0(CapAt100(
            FDiv(newEa, calculateSatVaporPressure(newTa))))]

\* handleAirChange(newTa, newEa): the App state after it.
handleAirChange(newTa, newEa) ==
  [Ta |-> newTa, Ts |-> Ts, Qn |-> Qn,
   RH |-> FloorAt0(CapAt100(
            FMul(FDiv(newEa, calculateSatVaporPressure(newTa)), Num(100, 0))))]

(***************************************************************************)
(* src/components/IsenthalpicDiagram.tsx: the drag protocol                *)
(***************************************************************************)

\* onMouseDown of the red dot's group
MouseDownSurface ==
  /\ activeTab = "model"
  /\ dragging' = "surface"
  /\ event' = Event("mousedownRed", NoCallback)
  /\ UNCHANGED <<activeTab, Ta, Ts, RH, Qn, view, call, prev, curve>>

\* onMouseDown of the gray dot's group
MouseDownAir ==
  /\ activeTab = "model"
  /\ dragging' = "air"
  /\ event' = Event("mousedownGray", NoCallback)
  /\ UNCHANGED <<activeTab, Ta, Ts, RH, Qn, view, call, prev, curve>>

\* handleMouseMove without its early return when nothing is dragged.
handleMouseMove_NoGuard(px, py, rect) ==
  LET scaleFactorX == FDiv(Num(width, 0), Num(rect[1], 0))
      scaleFactorY == FDiv(Num(height, 0), Num(rect[2], 0))
      mouseX == FMul(Num(px, 0), scaleFactorX)
      mouseY == FMul(Num(py, 0), scaleFactorY)
      newT == invertX(mouseX)
  IN IF dragging = "surface"
     THEN [cb |-> "onSurfaceChange", a |-> newT, b |-> 0]
     ELSE [cb |-> "onAirChange", a |-> newT, b |-> invertY(mouseY)]

\* handleMouseMove(e): the callback it invokes and with which arguments, for
\* the pointer at (px, py) from the corner of an SVG rendered at size rect.
handleMouseMove(px, py, rect) ==
  IF dragging = "null" THEN NoCallback
  ELSE LET scaleFactorX == FDiv(Num(width, 0), Num(rect[1], 0))
           scaleFactorY == FDiv(Num(height, 0), Num(rect[2], 0))
           mouseX == FMul(Num(px, 0), scaleFactorX)
           mouseY == FMul(Num(py, 0), scaleFactorY)
           newT == invertX(mouseX)
       IN IF dragging = "surface"
          THEN [cb |-> "onSurfaceChange", a |-> newT, b |-> 0]
          ELSE [cb |-> "onAirChange", a |-> newT, b |-> invertY(mouseY)]

\* The App state after the callback cb, if any, has run.
Invoke(cb) ==
  IF cb.cb = "onSurfaceChange" THEN handleSurfaceChange(cb.a)
  ELSE IF cb.cb = "onAirChange" THEN handleAirChange(cb.a, cb.b)
  ELSE [Ta |-> Ta, Ts |-> Ts, RH |-> RH, Qn |-> Qn]

\* A mousemove on the window while the diagram is mounted.
MouseMove(px, py, rect) ==
  /\ activeTab = "model"
  /\ \E cb \in {handleMouseMove(px, py, rect)} :
       /\ \E next \in {Invoke(cb)} :
            Commit(activeTab, next.Ta, next.Ts, next.RH, next.Qn)
       /\ event' = Event("mousemove", cb)
  /\ UNCHANGED <<dragging, call, prev, curve>>

\* handleMouseUp: the dragging state after a mouseup on the window.
handleMouseUp == "null"

MouseUp ==
  /\ activeTab = "model"
  /\ dragging' = handleMouseUp
  /\ event' = Event("mouseup", NoCallback)
  /\ UNCHANGED <<activeTab, Ta, Ts, RH, Qn, view, call, prev, curve>>

Next ==
  \/ \E t \in {"theory", "model", "calculator"} : SetActiveTab(t)
  \/ \E v \in RangeTemps : SliderTa(v)
  \/ \E v \in RangeTemps : SliderTs(v)
  \/ \E v \in RangeRH : SliderRH(v)
  \/ \E v \in RangeQn : SliderQn(v)
  \/ \E v \in TypedQn : CalcQn(v)
  \/ \E v \in TypedTemps : CalcTa(v)
  \/ \E v \in TypedTemps : CalcTs(v)
  \/ \E v \in TypedRH : CalcRH(v)
  \/ MouseDownSurface
  \/ MouseDownAir
  \/ \E p \in Pointers : MouseMove(p[1], p[2], p[3])
  \/ MouseUp

Spec == Init /\ [][Next]_vars

(***************************************************************************)
(* The thermo functions called directly, on arguments drawn from samples   *)
(* of their whole domain rather than on what App derives.                  *)
(***************************************************************************)

\* Temperatures: those of the UI, and those around the pole.
FnTemps == KnownTemps
\* Vapor pressures, spaced so that es_star - ea meets GAMMA * (Ta - Ts).
FnPressures == {Num(0, 0), Num(1, 0), Num(1, 6600), Num(2, 3200)}
FnEnergies == {-Num(50, 0), Num(0, 0), Num(300, 0)}

InitFn ==
  /\ activeTab = "model"
  /\ Ta = InitTa
  /\ Ts = InitTs
  /\ RH = InitRH
  /\ Qn = InitQn
  /\ dragging = "null"
  /\ view = Render("model", InitTa, InitTs, InitRH, InitQn)
  /\ event = Event("init", NoCallback)
  /\ prev = NoCall
  /\ curve = NoCurve
  /\ \/ \E T \in FnTemps : call = Pending("calculateSatVaporPressure", <<T>>)
     \/ \E Ts_ \in FnTemps, Ta_ \in FnTemps :
          call = Pending("calculateIsothermalVaporPressure", <<Ts_, Ta_>>)
     \/ \E Qn_ \in FnEnergies, eI_ \in {Num(0, 0), Num(1, 0)},
           ea_ \in FnPressures, es_star_ \in FnPressures,
           Ts_ \in FnLEITemps, Ta_ \in FnLEITemps :
          call = Pending("calculateLEI", <<Qn_, eI_, ea_, es_star_, Ts_, Ta_>>)

ReturnSat ==
  /\ call.fn = "calculateSatVaporPressure" /\ ~call.done
  /\ call' = [call EXCEPT !.done = TRUE,
                          !.ret = calculateSatVaporPressure(call.args[1])]
  /\ UNCHANGED <<prev, activeTab, Ta, Ts, RH, Qn, dragging, view, event, curve>>

\* A second call of calculateSatVaporPressure, after the first returned.
CallSatAgain(T) ==
  /\ call.fn = "calculateSatVaporPressure" /\ call.done /\ prev = NoCall
  /\ prev' = call
  /\ call' = Pending("calculateSatVaporPressure", <<T>>)
  /\ UNCHANGED uiVars

ReturnIso ==
  /\ call.fn = "calculateIsothermalVaporPressure" /\ ~call.done
  /\ LET r == calculateIsothermalVaporPressure(call.args[1], call.args[2])
     IN call' = [call EXCEPT !.done = TRUE, !.ret = r.eI, !.regime = r.regime]
  /\ UNCHANGED <<prev, activeTab, Ta, Ts, RH, Qn, dragging, view, event, curve>>

ReturnLEI ==
  /\ call.fn = "calculateLEI" /\ ~call.done
  /\ call' = [call EXCEPT !.done = TRUE,
                          !.ret = calculateLEI(call.args[1], call.args[2],
                                               call.args[3], call.args[4],
                                               call.args[5], call.args[6])]
  /\ UNCHANGED <<prev, activeTab, Ta, Ts, RH, Qn, dragging, view, event, curve>>

NextFn ==
  \/ ReturnSat
  \/ \E T \in FnTemps : CallSatAgain(T)
  \/ ReturnIso
  \/ ReturnLEI

SpecFn == InitFn /\ [][NextFn]_vars

(***************************************************************************)
(* The diagram's mounts and the loop of saturationCurvePath, one iteration *)
(* at a time: src/components/IsenthalpicDiagram.tsx 48-55, src/App.tsx 84  *)
(***************************************************************************)

\* How many times the model tab is entered.
MaxMounts == 2

\* The props the diagram is re-rendered with while the memo is kept.
CurveTemps == {Num(minT, 0), Num(maxT, 0)}
CurveRH == {Num(10, 0)}

\* t += 0.5
SampleStep == Num(0, 5000)

\* The loop's test with < in place of <=.
LoopCondition_Strict(t) == FLt(t, Num(maxT, 0))

\* t <= maxT
LoopCondition(t) == FLe(t, Num(maxT, 0))

\* A point of the path: the command and the temperature that scaleX and
\* calculateSatVaporPressure are applied to.
PathPoint(cmd, t) == [cmd |-> cmd, t |-> t]

\* useMemo's callback starts on a mount: let d = `M ...` at minT and the
\* loop's let t = minT.
StartMemo(runs, mounts) ==
  [pc |-> "loop", t |-> Num(minT, 0),
   d |-> <<PathPoint("M", Num(minT, 0))>>, runs |-> runs, mounts |-> mounts]

\* The first render of App mounts the diagram, whose useMemo starts.
InitCurve ==
  /\ activeTab = "model"
  /\ Ta = InitTa
  /\ Ts = InitTs
  /\ RH = InitRH
  /\ Qn = InitQn
  /\ dragging = "null"
  /\ view = Render("model", InitTa, InitTs, InitRH, InitQn)
  /\ event = Event("init", NoCallback)
  /\ call = NoCall
  /\ prev = NoCall
  /\ curve = StartMemo(1, 1)

\* One iteration: d += ` L ...` at t, then t += 0.5.
LoopStep ==
  /\ curve.pc = "loop"
  /\ LoopCondition(curve.t)
  /\ curve' = [curve EXCEPT !.d = Append(@, PathPoint("L", curve.t)),
                            !.t = FAdd(@, SampleStep)]
  /\ UNCHANGED <<activeTab, Ta, Ts, RH, Qn, dragging, view, event, call, prev>>

\* The loop's test fails: return d, which useMemo keeps.
LoopExit ==
  /\ curve.pc = "loop"
  /\ ~LoopCondition(curve.t)
  /\ curve' = [curve EXCEPT !.pc = "done"]
  /\ UNCHANGED <<activeTab, Ta, Ts, RH, Qn, dragging, view, event, call, prev>>

\* The diagram re-renders with new props; the dependency list of useMemo is
\* empty, so the callback is not run again.
RerenderTa(v) == curve.pc = "done" /\ SliderTa(v)
RerenderTs(v) == curve.pc = "done" /\ SliderTs(v)
RerenderRH(v) == curve.pc = "done" /\ SliderRH(v)

\* setActiveTab away from the model tab: the diagram is unmounted and its
\* memo is dropped.
UnmountDiagram(t) ==
  /\ curve.pc = "done"
  /\ activeTab = "model"
  /\ Commit(t, Ta, Ts, RH, Qn)
  /\ dragging' = "null"
  /\ event' = Event("setActiveTab", NoCallback)
  /\ curve' = [curve EXCEPT !.pc = "unmounted", !.t = 0, !.d = <<>>]
  /\ UNCHANGED <<call, prev>>

\* setActiveTab('model'): the diagram is mounted anew and useMemo starts.
MountDiagram ==
  /\ curve.pc = "unmounted"
  /\ curve.mounts < MaxMounts
  /\ Commit("model", Ta, Ts, RH, Qn)
  /\ event' = Event("setActiveTab", NoCallback)
  /\ curve' = StartMemo(curve.runs + 1, curve.mounts + 1)
  /\ UNCHANGED <<dragging, call, prev>>

NextCurve ==
  \/ LoopStep
  \/ LoopExit
  \/ \E v \in CurveTemps : RerenderTa(v)
  \/ \E v \in CurveTemps : RerenderTs(v)
  \/ \E v \in CurveRH : RerenderRH(v)
  \/ \E t \in {"theory", "calculator"} : UnmountDiagram(t)
  \/ MountDiagram

SpecCurve == InitCurve /\ [][NextCurve]_vars

(***************************************************************************)
(* Properties of the thermo functions, over SpecFn                         *)
(***************************************************************************)

IsCall(fn) == call.fn = fn /\ call.done

\* The denominator of Equation (9): (es_star - ea) - GAMMA * (Ta - Ts).
Eq9Denominator(ea_, es_star_, Ts_, Ta_) ==
  FSub(FSub(es_star_, ea_), FMul(GAMMA, FSub(Ta_, Ts_)))

\* C1: every call calculateLEI(Qn, eI, ea, es_star, Ts, Ta) with Ts <= Ta
\* returns Qn, whatever Qn, eI, ea and es_star are.
C1_LimitedFluxIsQn ==
  IsCall("calculateLEI") /\ FLe(call.args[5], call.args[6])
    => call.ret = call.args[1]

Pole == -Num(237, 3000)
SameSideOfPole(T1, T2) == (T1 < Pole) = (T2 < Pole)
InUIDomain(T) == Num(minT, 0) <= T /\ T <= Num(maxT, 0)

\* Two calls of calculateSatVaporPressure have returned, the first on the
\* lower temperature.
SatPair ==
  /\ IsCall("calculateSatVaporPressure")
  /\ prev.fn = "calculateSatVaporPressure"
  /\ prev.args[1] < call.args[1]

C5_RegimeBySign ==
  IsCall("calculateIsothermalVaporPressure") =>
    LET Ts_ == call.args[1]
        Ta_ == call.args[2]
    IN /\ call.regime \in {"limited", "saturated"}
       /\ call.regime = "limited" <=> Ts_ <= Ta_
       /\ call.regime = "saturated" <=> Ts_ > Ta_
       /\ call.regime = "limited" =>
            call.ret = FSub(calculateSatVaporPressure(Ts_),
                            FMul(GAMMA, FSub(Ta_, Ts_)))
       /\ call.regime = "saturated" =>
            call.ret = calculateSatVaporPressure(Ta_)

\* C5 happens: on the boundary Ts = Ta the limited regime was returned.
C5_Witness ==
  /\ IsCall("calculateIsothermalVaporPressure")
  /\ call.args[1] = call.args[2]
  /\ call.regime = "limited"
  /\ call.ret = calculateSatVaporPressure(call.args[1])

(***************************************************************************)
(* Properties of the application, over Spec                                *)
(***************************************************************************)

\* Relative humidity is physically plausible: between 0 and 100 percent.
PlausibleRH == FLe(0, RH) /\ FLe(RH, Num(100, 0))

C6_LimitedProjectionValid ==
  InUIDomain(Ts) /\ InUIDomain(Ta) /\ FLe(Ts, Ta)
    => /\ FGe(view.app.eI, 0)
       /\ FLe(view.app.eI, calculateSatVaporPressure(Ta))

\* C7 as stated: for every Ts and Ta, eI is at most e*(Ta), and in the
\* saturated regime with RH <= 100 the gradient G_I = eI - ea is not negative.
C7_CappedEverywhere ==
  /\ FLe(view.app.eI, calculateSatVaporPressure(Ta))
  /\ view.app.regime = "saturated" /\ FLe(RH, Num(100, 0))
       => FGe(view.app.G_I, 0)

\* C7 as amended: for Ts and Ta in the UI domain [0, 40], eI is at most
\* e*(Ta); in the saturated regime G_I is positive when RH <= 99 and is zero
\* to within one rounding unit when RH = 100.
C7_CappedInUIDomain ==
  InUIDomain(Ts) /\ InUIDomain(Ta) =>
    /\ FLe(view.app.eI, calculateSatVaporPressure(Ta))
    /\ view.app.regime = "saturated" /\ FLe(RH, Num(99, 0))
         => FGt(view.app.G_I, 0)
    /\ view.app.regime = "saturated" /\ RH = Num(100, 0)
         => Abs(view.app.G_I) <= 1

\* C7 happens: a saturated-regime state in the UI domain whose projection
\* would exceed e*(Ta) and whose eI is e*(Ta), with saturated air.
C7_Witness ==
  /\ InUIDomain(Ts) /\ InUIDomain(Ta)
  /\ view.app.regime = "saturated"
  /\ FGt(FSub(calculateSatVaporPressure(Ts), FMul(GAMMA, FSub(Ta, Ts))),
         calculateSatVaporPressure(Ta))
  /\ view.app.eI = calculateSatVaporPressure(Ta)
  /\ RH = Num(100, 0)
  /\ view.app.G_I = 0

\* C8: in every reachable state the displayed ea, eI, regime and LE_I are
\* the thermo functions applied to the current Ta, Ts, RH and Qn, and the
\* regime the diagram shows is the regime App shows.
C8_DerivedValuesCurrent ==
  LET ea == FDiv(FMul(calculateSatVaporPressure(Ta), RH), Num(100, 0))
      iso == calculateIsothermalVaporPressure(Ts, Ta)
  IN /\ view.app.ea = ea
     /\ view.app.eI = iso.eI
     /\ view.app.regime = iso.regime
     /\ view.app.LE_I =
          calculateLEI(Qn, iso.eI, ea, calculateSatVaporPressure(Ts), Ts, Ta)
     /\ view.diagram.mounted = (activeTab = "model")
     /\ view.diagram.mounted =>
          /\ view.diagram.regime = view.app.regime
          /\ view.diagram.eI = view.app.eI

\* C8 happens: after a drag of the gray dot changed the regime, both
\* components show the new one.
C8_Witness ==
  /\ event.cb = "onAirChange"
  /\ view.diagram.mounted
  /\ view.app.regime = "saturated"
  /\ view.diagram.regime = "saturated"
  /\ view.app.ea = FDiv(FMul(calculateSatVaporPressure(Ta), RH), Num(100, 0))

\* C9: mousedown on the red dot sets dragging to 'surface', on the gray dot
\* to 'air', mouseup sets it back to null, and dragging leaves null by a
\* mousedown only; a mouse move invokes onSurfaceChange only while dragging
\* is 'surface' and onAirChange only while it is 'air'; while dragging is
\* null a mouse move changes none of Ta, Ts, RH, Qn; a surface drag sets Ts
\* and leaves Ta, RH and Qn unchanged.
C9_DragProtocol ==
  [][ /\ event'.type = "mousedownRed" => dragging' = "surface"
      /\ event'.type = "mousedownGray" => dragging' = "air"
      /\ event'.type = "mouseup" => dragging' = "null"
      /\ dragging = "null" /\ dragging' # "null"
           => event'.type \in {"mousedownRed", "mousedownGray"}
      /\ event'.cb = "onSurfaceChange"
           => event'.type = "mousemove" /\ dragging = "surface"
      /\ event'.cb = "onAirChange"
           => event'.type = "mousemove" /\ dragging = "air"
      /\ event'.type = "mousemove" /\ dragging = "null"
           => event'.cb = "none" /\ UNCHANGED appState
      /\ event'.type = "mousemove" /\ dragging = "surface"
           => /\ event'.cb = "onSurfaceChange"
              /\ Ts' = event'.a
              /\ UNCHANGED <<Ta, RH, Qn>>
    ]_vars

\* C9 happens: a surface drag has moved Ts to the pointer's temperature.
C9_Witness ==
  /\ event.type = "mousemove"
  /\ event.cb = "onSurfaceChange"
  /\ dragging = "surface"
  /\ Ts = event.a
  /\ Ts # InitTs

RoundingSlack == Num(0, 10)
\* a and b are finite and differ by at most the resolved step.
Near(a, b) == IsFinite(a) /\ IsFinite(b) /\ Abs(a - b) <= RoundingSlack

\* C11 as stated: after an air drag to (newTa, newEa), Ta is newTa and the
\* ea re-rendered from the new state, e*(Ta) * RH / 100, equals newEa when
\* 0 <= newEa <= e*(newTa), and equals e*(newTa) when newEa > e*(newTa).
C11_AirDragSetsEaExactly ==
  event.cb = "onAirChange" =>
    /\ Ta = event.a
    /\ (FLe(0, event.b) /\ FLe(event.b, calculateSatVaporPressure(event.a)))
         => view.app.ea = event.b
    /\ FGt(event.b, calculateSatVaporPressure(event.a))
         => view.app.ea = calculateSatVaporPressure(event.a)

\* C11 as amended: after an air drag to (newTa, newEa), Ta is newTa and the
\* re-rendered ea is within 0.001 kPa of newEa when 0 <= newEa <= e*(newTa),
\* and within 0.001 kPa of e*(newTa) when newEa > e*(newTa): the state keeps
\* RH, and newEa / e* * 100 followed by e* * RH / 100 rounds twice.
C11_AirDragSetsEaWithinRounding ==
  event.cb = "onAirChange" =>
    /\ Ta = event.a
    /\ (FLe(0, event.b) /\ FLe(event.b, calculateSatVaporPressure(event.a)))
         => Near(view.app.ea, event.b)
    /\ FGt(event.b, calculateSatVaporPressure(event.a))
         => Near(view.app.ea, calculateSatVaporPressure(event.a))

\* C11 happens: the gray dot was dragged to a point below the saturation
\* curve, and the re-rendered ea is next to the pointer's vapor pressure
\* without being equal to it.
C11_Witness ==
  /\ event.cb = "onAirChange"
  /\ dragging = "air"
  /\ FLt(0, event.b)
  /\ FLt(event.b, calculateSatVaporPressure(event.a))
  /\ Ta = event.a
  /\ view.app.ea # event.b
  /\ Near(view.app.ea, event.b)

(***************************************************************************)
(* C12: the sampling loop of the saturation curve                          *)
(***************************************************************************)

IsLoopPoint(p) == p.cmd = "L"
\* The points the loop has added to the path so far.
LoopSamples == SelectSeq(curve.d, IsLoopPoint)

\* The loop has added at most 81 points, the i-th at minT + (i - 1) / 2; at
\* 81 points its test fails; once it has returned the points are the 81
\* temperatures 0, 0.5, ..., 40, whatever Ts, Ta and RH have become.
FixedSampling ==
  /\ Len(LoopSamples) <= 81
  /\ \A i \in 1..Len(LoopSamples) :
       LoopSamples[i].t = FAdd(Num(minT, 0), FMul(Num(i - 1, 0), SampleStep))
  /\ (curve.pc = "loop" /\ Len(LoopSamples) = 81) => ~LoopCondition(curve.t)
  /\ curve.pc = "done" =>
       /\ Len(LoopSamples) = 81
       /\ LoopSamples[1].t = Num(minT, 0)
       /\ LoopSamples[81].t = Num(maxT, 0)

\* C12 as stated: the sampling loop ends after a fixed number of
\* evaluations, at exactly the 81 temperatures 0, 0.5, ..., 40 in increasing
\* order from minT to maxT, and the path is computed once, independent of
\* Ts, Ta and ea.
C12_SampledOnce ==
  /\ FixedSampling
  /\ curve.runs <= 1

\* C12 as amended: the sampling loop ends after a fixed number of
\* evaluations, at exactly the 81 temperatures 0, 0.5, ..., 40 in increasing
\* order from minT to maxT; the path is computed once for each mount of the
\* diagram, and not again when Ts, Ta or ea change.
C12_SampledOncePerMount ==
  /\ FixedSampling
  /\ curve.runs = curve.mounts

\* C12 happens: the model tab was left and entered again, the loop has
\* returned its 81 points a second time, and the diagram has since been
\* re-rendered with another Ta, Ts and RH.
C12_Witness ==
  /\ curve.pc = "done"
  /\ Len(LoopSamples) = 81
  /\ curve.mounts = 2
  /\ curve.runs = 2
  /\ Ta # InitTa /\ Ts # InitTs /\ RH # InitRH
  /\ view.diagram.Ta = Ta

====
